---- MODULE Spec2Model ----
(***************************************************************************)
(* Model of namespace koncar in KONCAR_job_assignment_Filip_Matjasec.cpp:  *)
(* the hexadecimal codec (binary_to_string, string_to_binary) and the two  *)
(* directory size calculators (directory_size, directory_size_recursive).  *)
(*                                                                         *)
(* Characters are modelled by their value as a plain (signed) char, bytes  *)
(* by 0..255.  The file system is a finite tree of entries.                *)
(***************************************************************************)
EXTENDS Integers, Sequences, FiniteSets, TLC

VARIABLES
    \* ---- codec ----
    cpc,        \* position of the codec scenario
    data,       \* argument of binary_to_string
    uppercase,  \* argument of binary_to_string
    str,        \* argument of string_to_binary
    hexOut,     \* value returned by binary_to_string
    binOut,     \* record returned by string_to_binary
    \* ---- file system (input of the directory calculators) ----
    root,       \* what the root path names: "dir", "missing" or "notdir"
    nodes,      \* sequence of entries below the root, entry n has id n
    fault,      \* the single faulty entry, or NoFault
    dirSize,    \* what fs::file_size does for a non regular file
    variant,    \* which calculator is called
    \* ---- the running call ----
    pc,         \* "idle", "iterating", "done"
    dirs,       \* directory_size: the streams the recursive iterator has open
    size,       \* directory_size: the accumulator
    frames,     \* directory_size_recursive: the frames of the recursion
    result,     \* the value returned
    outcome,    \* "running", "returned", "terminated"
    errlog,     \* number of messages written to std::cerr
    iter,       \* number of loop iterations executed
    last        \* the entry handled by the last loop iteration

codecVars == <<cpc, data, uppercase, str, hexOut, binOut>>
fsVars    == <<root, nodes, fault, dirSize, variant>>
runVars   == <<pc, dirs, size, frames, result, outcome, errlog, iter, last>>
vars      == <<cpc, data, uppercase, str, hexOut, binOut,
               root, nodes, fault, dirSize, variant,
               pc, dirs, size, frames, result, outcome, errlog, iter, last>>

(***************************************************************************)
(* Bounds                                                                  *)
(***************************************************************************)
MaxLen    == 2      \* longest byte sequence over the palette
MaxStrLen == 4      \* longest input text of string_to_binary
MaxNodes  == 3      \* most entries below the root

(***************************************************************************)
(* Characters and bytes                                                    *)
(***************************************************************************)
\* '0' '9' 'A' 'F' 'a' 'f' 'G' and 0xE9 as a signed char
Chars == {48, 57, 65, 70, 97, 102, 71, -23}

\* a palette of bytes for the longer sequences: 00 09 0A 0D 10 AD BA F0 FF
Bytes == {0, 9, 10, 13, 16, 173, 186, 240, 255}

RECURSIVE SeqsUpTo(_, _)
SeqsUpTo(S, n) ==
    IF n = 0 THEN {<<>>}
    ELSE LET shorter == SeqsUpTo(S, n - 1)
         IN  shorter \cup {Append(s, x) : s \in {t \in shorter : Len(t) = n - 1}, x \in S}

ByteSeqs == SeqsUpTo(Bytes, MaxLen) \cup {<<b>> : b \in 0..255}
Texts    == SeqsUpTo(Chars, MaxStrLen)

(***************************************************************************)
(* binary_to_string                                                        *)
(***************************************************************************)
\* one digit as num_put writes it under std::hex, with or without std::uppercase
DigitCharLower(d, upper) ==
    IF d < 10 THEN 48 + d ELSE 97 + (d - 10)
DigitChar(d, upper) ==
    IF d < 10 THEN 48 + d
    ELSE IF upper THEN 65 + (d - 10) ELSE 97 + (d - 10)

\* operator<<(int) under std::hex: the digits of v, no leading zeros
RECURSIVE HexDigits(_, _)
HexDigits(v, upper) ==
    IF v < 16 THEN <<DigitChar(v, upper)>>
    ELSE HexDigits(v \div 16, upper) \o <<DigitChar(v % 16, upper)>>

\* std::setw(w) with std::setfill(fill): pad on the left up to the width
RECURSIVE PadLeft(_, _, _)
PadLeftNone(s, w, fill) == s
PadLeft(s, w, fill) ==
    IF Len(s) >= w THEN s ELSE PadLeft(<<fill>> \o s, w, fill)

\* the loop of binary_to_string: two characters per byte, in input order
RECURSIVE binary_to_string(_, _)
binary_to_string(d, upper) ==
    IF d = <<>> THEN <<>>
    ELSE PadLeft(HexDigits(Head(d), upper), 2, 48) \o binary_to_string(Tail(d), upper)

(***************************************************************************)
(* string_to_binary                                                        *)
(***************************************************************************)
\* std::isxdigit for an argument representable as unsigned char
IsXDigitUpperOnly(c) == c \in 48..57 \/ c \in 65..70
IsXDigit(c) == c \in 48..57 \/ c \in 65..70 \/ c \in 97..102

\* a plain char below 0 is passed to std::isxdigit unconverted: the value is
\* not representable as unsigned char and the call has undefined behaviour
OutOfRange(c) == c < 0

\* the outcomes of the undefined call: classified as no digit, classified as
\* a digit, or the run time aborts the process (checked C run time)
UBOutcomes == {"nonhex", "hex", "abort"}

\* value of one digit character as num_get reads it under std::hex
DigitValue(c) ==
    IF c \in 48..57 THEN c - 48
    ELSE IF c \in 65..70 THEN c - 65 + 10
    ELSE c - 97 + 10

\* iss >> std::hex >> byte: the leading digits are accumulated; when there
\* is none the extraction fails and stores 0
RECURSIVE ParseHex(_, _)
ParseHex(sub, acc) ==
    IF sub = <<>> \/ ~IsXDigit(Head(sub)) THEN acc
    ELSE ParseHex(Tail(sub), acc * 16 + DigitValue(Head(sub)))

\* static_cast<uint8_t>(byte)
ToUint8(v) == v % 256

\* the check of one character of the pair: "ok", "throw" or "abort"
CheckChar(c, ub) ==
    IF OutOfRange(c)
    THEN CASE ub = "nonhex" -> "throw"
           [] ub = "hex"    -> "ok"
           [] OTHER         -> "abort"
    ELSE IF IsXDigit(c) THEN "ok" ELSE "throw"

\* what is returned: the vector, whether the catch block logged an error,
\* and whether the process was aborted instead of returning
Returned(v)  == [value |-> v,    failed |-> FALSE, aborted |-> FALSE]
Caught       == [value |-> <<>>, failed |-> TRUE,  aborted |-> FALSE]
Aborted      == [value |-> <<>>, failed |-> FALSE, aborted |-> TRUE]

\* the for loop of string_to_binary from index i with the bytes decoded so far
RECURSIVE DecodeLoop(_, _, _, _)
DecodeLoop(s, i, acc, ub) ==
    IF i > Len(s) THEN Returned(acc)
    ELSE LET sub == SubSeq(s, i, i + 1)
             c1  == CheckChar(sub[1], ub)
             c2  == CheckChar(sub[2], ub)
         IN  IF c1 = "abort" \/ (c1 = "ok" /\ c2 = "abort") THEN Aborted
             ELSE IF c1 = "throw" \/ c2 = "throw" THEN Caught
             ELSE DecodeLoop(s, i + 2, Append(acc, ToUint8(ParseHex(sub, 0))), ub)

\* str.size() & 1
OddLength(s) == Len(s) % 2 = 1

string_to_binary(s, ub) ==
    IF OddLength(s) THEN Caught
    ELSE DecodeLoop(s, 1, <<>>, ub)

(***************************************************************************)
(* The file system                                                         *)
(***************************************************************************)
Kinds == {"file", "dir", "symlink", "other"}

NoFault == [node |-> 0, type |-> "none"]

\* st_size of entry n: a distinct power of two, so that a sum tells which
\* entries were counted
RECURSIVE Pow2(_)
Pow2(n) == IF n = 0 THEN 1 ELSE 2 * Pow2(n - 1)
NodeSize(n) == Pow2(n - 1)

\* entry n lives in the root (0) or in a directory created before it
ParentChoices(ks, n) == {0} \cup {p \in 1..(n - 1) : ks[p] = "dir"}

\* a symbolic link dangles (0) or names a later file or directory, so that
\* links never form a cycle
TargetChoices(ks, n) ==
    IF ks[n] = "symlink"
    THEN {0} \cup {t \in (n + 1)..Len(ks) : ks[t] \in {"file", "dir"}}
    ELSE {0}

RECURSIVE BuildNodes(_, _)
BuildNodes(ks, n) ==
    IF n = 0 THEN {<<>>}
    ELSE {Append(t, [parent |-> p, kind |-> ks[n], target |-> g]) :
            t \in BuildNodes(ks, n - 1),
            p \in ParentChoices(ks, n),
            g \in TargetChoices(ks, n)}

Trees == UNION {BuildNodes(ks, Len(ks)) : ks \in SeqsUpTo(Kinds, MaxNodes)}

\* at most one entry is faulty: its status cannot be read ("stat", an entry
\* that is no directory), or it is a directory that cannot be opened: one
\* that can be searched but not listed ("open"), or one without any
\* permission ("locked"), below which no path can be resolved either
Faults(ns) ==
    {NoFault}
    \cup {[node |-> n, type |-> "stat"] : n \in {m \in 1..Len(ns) : ns[m].kind # "dir"}}
    \cup {[node |-> n, type |-> t] :
            n \in {m \in 1..Len(ns) : ns[m].kind = "dir"}, t \in {"open", "locked"}}

Ids == 1..Len(nodes)

\* the entries a directory stream of d yields
Children(d) == {n \in Ids : nodes[n].parent = d}

\* the file a path resolves to when symbolic links are followed; 0 when the
\* link dangles
Resolve(e) == IF nodes[e].kind = "symlink" THEN nodes[e].target ELSE e

\* entry n lies below directory d
RECURSIVE IsUnder(_, _)
IsUnder(n, d) ==
    IF n = 0 THEN FALSE
    ELSE nodes[n].parent = d \/ IsUnder(nodes[n].parent, d)

\* stat() of the entry fails: the file it names is the faulty one, or the
\* path it names leads through a directory that cannot be searched
StatFails(e) ==
    \/ fault.type = "stat" /\ (fault.node = e \/ fault.node = Resolve(e))
    \/ fault.type = "locked" /\ IsUnder(Resolve(e), fault.node)

\* opendir() of the directory fails
OpenFails(d) == fault.type \in {"open", "locked"} /\ fault.node = d

(***************************************************************************)
(* std::filesystem operations used by the calculators                     *)
(***************************************************************************)
Value(v) == [ok |-> TRUE,  value |-> v]
Throws   == [ok |-> FALSE, value |-> 0]

\* fs::file_size(entry): follows symbolic links; an error for a missing
\* file; for a file that is not regular the result is implementation
\* defined: an error (libstdc++, libc++) or the size the system reports
FileSize(e) ==
    IF StatFails(e) \/ Resolve(e) = 0 THEN Throws
    ELSE IF nodes[Resolve(e)].kind = "file" THEN Value(NodeSize(Resolve(e)))
    ELSE IF dirSize = "error" THEN Throws
    ELSE Value(NodeSize(Resolve(e)))

\* fs::status(entry).type(): follows symbolic links; "not_found" for a
\* dangling link
StatusTypeNoFollow(e) == nodes[e].kind
StatusType(e) ==
    IF Resolve(e) = 0 THEN "not_found" ELSE nodes[Resolve(e)].kind

\* catch (const fs::filesystem_error&) around the loop body
InnerCatchesNothing(ex) == FALSE
InnerCatches(ex) == ex = "filesystem_error"

\* catch (const fs::filesystem_error&) around the loop
OuterCatchesNothing(ex) == FALSE
OuterCatches(ex) == ex = "filesystem_error"

(***************************************************************************)
(* directory_size: fs::recursive_directory_iterator                       *)
(***************************************************************************)
\* the iterator pops every stream that is exhausted
RECURSIVE PopExhausted(_)
PopExhausted(st) ==
    IF st # <<>> /\ st[Len(st)] = {} THEN PopExhausted(SubSeq(st, 1, Len(st) - 1))
    ELSE st

\* increment recurses into an entry that is a directory itself (symbolic
\* links to directories are not followed: directory_options::none)
RecursesNever(e) == FALSE
Recurses(e) == nodes[e].kind = "dir"

\* return size, after the loop ended or the outer catch block ran
FlatReturn(sz, log) ==
    /\ pc' = "done"
    /\ result' = sz
    /\ size' = sz
    /\ outcome' = "returned"
    /\ errlog' = log
    /\ dirs' = <<>>

\* an exception the function does not catch leaves it: std::terminate
Terminate ==
    /\ pc' = "done"
    /\ result' = 0
    /\ outcome' = "terminated"
    /\ UNCHANGED <<size, errlog>>
    /\ dirs' = <<>>
    /\ frames' = <<>>

\* an exception that leaves the loop reaches the outer handler
FlatOuterCatch(sz, log) ==
    IF OuterCatches("filesystem_error")
    THEN FlatReturn(sz, log + 1) /\ UNCHANGED frames
    ELSE Terminate

\* the loop goes on with the streams st, or ends when none is left
FlatContinue(st, sz, log) ==
    IF st = <<>> THEN FlatReturn(sz, log)
    ELSE /\ pc' = "iterating"
         /\ dirs' = st
         /\ size' = sz
         /\ errlog' = log
         /\ UNCHANGED <<result, outcome>>

\* uint64_t size = 0; the iterator is constructed on path
FlatBegin ==
    /\ pc = "idle"
    /\ variant = "flat"
    /\ IF root # "dir"
       THEN FlatOuterCatch(0, errlog)
       ELSE /\ FlatContinue(PopExhausted(<<Children(0)>>), 0, errlog)
            /\ UNCHANGED frames
    /\ UNCHANGED <<iter, last>>
    /\ UNCHANGED fsVars
    /\ UNCHANGED codecVars

\* one iteration of the range for: the body on entry e, then ++iterator
FlatStep ==
    /\ pc = "iterating"
    /\ variant = "flat"
    /\ dirs # <<>>
    /\ \E e \in dirs[Len(dirs)] :
         LET fsz    == FileSize(e)
             caught == ~fsz.ok /\ InnerCatches("filesystem_error")
             sz     == IF fsz.ok THEN size + fsz.value ELSE size
             log    == IF caught THEN errlog + 1 ELSE errlog
             rest   == [dirs EXCEPT ![Len(dirs)] = @ \ {e}]
         IN  /\ last' = e
             /\ iter' = iter + 1
             /\ IF ~fsz.ok /\ ~caught
                THEN FlatOuterCatch(sz, log)
                ELSE IF Recurses(e) /\ OpenFails(e)
                THEN FlatOuterCatch(sz, log)
                ELSE IF Recurses(e)
                THEN FlatContinue(PopExhausted(Append(rest, Children(e))), sz, log)
                     /\ UNCHANGED frames
                ELSE FlatContinue(PopExhausted(rest), sz, log) /\ UNCHANGED frames
    /\ UNCHANGED fsVars
    /\ UNCHANGED codecVars

(***************************************************************************)
(* directory_size_recursive: fs::directory_iterator and recursion         *)
(***************************************************************************)
\* a frame of the recursion: the entries its stream still yields, its size
Frame(d) == [rest |-> Children(d), size |-> 0]

\* a call whose loop has ended returns its size, which the caller adds to
\* its own (size += directory_size_recursive(entry)); the last frame is
\* left in place for the outermost return
RECURSIVE UnwindDropping(_)
UnwindDropping(fr) ==
    IF Len(fr) > 1 /\ fr[Len(fr)].rest = {}
    THEN UnwindDropping(SubSeq(fr, 1, Len(fr) - 1))
    ELSE fr
RECURSIVE Unwind(_)
Unwind(fr) ==
    IF Len(fr) > 1 /\ fr[Len(fr)].rest = {}
    THEN Unwind([SubSeq(fr, 1, Len(fr) - 1) EXCEPT
                   ![Len(fr) - 1].size = @ + fr[Len(fr)].size])
    ELSE fr

NestedReturn(sz, log) ==
    /\ pc' = "done"
    /\ result' = sz
    /\ outcome' = "returned"
    /\ errlog' = log
    /\ frames' = <<>>

\* the loop goes on in the innermost unfinished call, or the outermost call
\* returns
NestedContinue(fr, log) ==
    LET un == Unwind(fr)
    IN  IF Len(un) = 1 /\ un[1].rest = {} THEN NestedReturn(un[1].size, log)
        ELSE /\ pc' = "iterating"
             /\ frames' = un
             /\ errlog' = log
             /\ UNCHANGED <<result, outcome>>

\* uint64_t size = 0; the iterator is constructed on path
NestedBegin ==
    /\ pc = "idle"
    /\ variant = "nested"
    /\ IF root # "dir"
       THEN IF OuterCatches("filesystem_error")
            THEN NestedReturn(0, errlog + 1) /\ UNCHANGED <<dirs, size>>
            ELSE Terminate
       ELSE NestedContinue(<<Frame(0)>>, errlog) /\ UNCHANGED <<dirs, size>>
    /\ UNCHANGED <<iter, last>>
    /\ UNCHANGED fsVars
    /\ UNCHANGED codecVars

\* one iteration of the loop of the innermost call on entry e
NestedStep ==
    /\ pc = "iterating"
    /\ variant = "nested"
    /\ frames # <<>>
    /\ \E e \in frames[Len(frames)].rest :
         LET top    == Len(frames)
             rest   == [frames EXCEPT ![top].rest = @ \ {e}]
             thrown == StatFails(e)
             type   == StatusType(e)
         IN  /\ last' = e
             /\ iter' = iter + 1
             /\ UNCHANGED <<dirs, size>>
             /\ IF thrown
                THEN \* is_regular_file throws
                     IF InnerCatches("filesystem_error")
                     THEN NestedContinue(rest, errlog + 1)
                     ELSE IF OuterCatches("filesystem_error")
                     THEN \* the innermost call returns what it has so far
                          NestedContinue([rest EXCEPT ![top].rest = {}], errlog + 1)
                     ELSE Terminate
                ELSE IF type = "file"
                THEN NestedContinue([rest EXCEPT ![top].size = @ + FileSize(e).value],
                                    errlog)
                ELSE IF type = "dir"
                THEN IF OpenFails(Resolve(e))
                     THEN \* the callee catches the error of its iterator, returns 0
                          IF OuterCatches("filesystem_error")
                          THEN NestedContinue(rest, errlog + 1)
                          ELSE IF InnerCatches("filesystem_error")
                          THEN NestedContinue(rest, errlog + 1)
                          ELSE Terminate
                     ELSE NestedContinue(Append(rest, Frame(Resolve(e))), errlog)
                ELSE NestedContinue(rest, errlog)
    /\ UNCHANGED fsVars
    /\ UNCHANGED codecVars

(***************************************************************************)
(* The codec scenario                                                      *)
(***************************************************************************)
NoResult == Returned(<<>>)

\* hex = binary_to_string(data, uppercase)
Encode ==
    /\ cpc = "start"
    /\ hexOut' = binary_to_string(data, uppercase)
    /\ cpc' = "encoded"
    /\ UNCHANGED <<data, uppercase, str, binOut>>
    /\ UNCHANGED fsVars
    /\ UNCHANGED runVars

\* string_to_binary(hex) on the text binary_to_string returned
DecodeEncoded ==
    /\ cpc = "encoded"
    /\ \E ub \in UBOutcomes : binOut' = string_to_binary(hexOut, ub)
    /\ cpc' = "roundtrip"
    /\ UNCHANGED <<data, uppercase, str, hexOut>>
    /\ UNCHANGED fsVars
    /\ UNCHANGED runVars

\* string_to_binary(str) on an arbitrary text
Decode ==
    /\ cpc = "start"
    /\ \E ub \in UBOutcomes : binOut' = string_to_binary(str, ub)
    /\ cpc' = "decoded"
    /\ UNCHANGED <<data, uppercase, str, hexOut>>
    /\ UNCHANGED fsVars
    /\ UNCHANGED runVars

(***************************************************************************)
(* Specifications                                                          *)
(***************************************************************************)
CodecIdle ==
    /\ cpc = "start"
    /\ data = <<>>
    /\ uppercase = TRUE
    /\ str = <<>>
    /\ hexOut = <<>>
    /\ binOut = NoResult

RunIdle ==
    /\ pc = "idle"
    /\ dirs = <<>>
    /\ size = 0
    /\ frames = <<>>
    /\ result = 0
    /\ outcome = "running"
    /\ errlog = 0
    /\ iter = 0
    /\ last = 0

\* a call of one of the two calculators on a root path
Init ==
    /\ CodecIdle
    /\ RunIdle
    /\ variant \in {"flat", "nested"}
    /\ dirSize \in {"error", "reported"}
    /\ \/ /\ root = "dir"
          /\ nodes \in Trees
          /\ fault \in Faults(nodes)
       \/ /\ root \in {"missing", "notdir"}
          /\ nodes = <<>>
          /\ fault = NoFault

Next ==
    \/ FlatBegin
    \/ FlatStep
    \/ NestedBegin
    \/ NestedStep

Spec == Init /\ [][Next]_vars

\* a call of binary_to_string, of string_to_binary, or of one on the result
\* of the other
InitCodec ==
    /\ cpc = "start"
    /\ hexOut = <<>>
    /\ binOut = NoResult
    /\ \/ /\ data \in ByteSeqs
          /\ uppercase \in BOOLEAN
          /\ str = <<>>
       \/ /\ data = <<>>
          /\ uppercase = TRUE
          /\ str \in Texts
    /\ RunIdle
    /\ root = "dir"
    /\ nodes = <<>>
    /\ fault = NoFault
    /\ dirSize = "error"
    /\ variant = "flat"

NextCodec ==
    \/ Encode
    \/ DecodeEncoded
    \/ Decode

SpecCodec == InitCodec /\ [][NextCodec]_vars

(***************************************************************************)
(* Properties of the codec                                                 *)
(***************************************************************************)
\* the sixteen digits, by value, in either case
HexAlphabet(upper) ==
    IF upper
    THEN <<48, 49, 50, 51, 52, 53, 54, 55, 56, 57, 65, 66, 67, 68, 69, 70>>
    ELSE <<48, 49, 50, 51, 52, 53, 54, 55, 56, 57, 97, 98, 99, 100, 101, 102>>

IsHexChar(c) ==
    \E d \in 1..16 : c = HexAlphabet(TRUE)[d] \/ c = HexAlphabet(FALSE)[d]

HexVal(c) ==
    (CHOOSE d \in 1..16 : c = HexAlphabet(TRUE)[d] \/ c = HexAlphabet(FALSE)[d]) - 1

ValidHex(s) == Len(s) % 2 = 0 /\ \A i \in 1..Len(s) : IsHexChar(s[i])

\* C1: decoding the text binary_to_string returned for any byte sequence,
\* in either case, succeeds and gives the byte sequence back.
C1_RoundTrip ==
    cpc = "roundtrip" => binOut = Returned(data)

C1_Witness ==
    /\ cpc = "roundtrip"
    /\ uppercase = FALSE
    /\ data = <<10, 173>>
    /\ hexOut = <<48, 97, 97, 100>>
    /\ binOut.value = data

\* C2: binary_to_string returns 2n characters for n bytes; characters 2i-1
\* and 2i (counted from 1) are the digits of the high and the low nibble of
\* byte i, letters in the case the flag selects; nothing for no bytes.
C2_EncodeDigits ==
    cpc \in {"encoded", "roundtrip"} =>
        /\ Len(hexOut) = 2 * Len(data)
        /\ \A i \in 1..Len(data) :
              /\ hexOut[2 * i - 1] = HexAlphabet(uppercase)[(data[i] \div 16) + 1]
              /\ hexOut[2 * i]     = HexAlphabet(uppercase)[(data[i] % 16) + 1]

C2_Witness ==
    /\ cpc = "encoded"
    /\ uppercase = FALSE
    /\ data = <<186, 13>>
    /\ hexOut = <<98, 97, 48, 100>>

\* C3: string_to_binary fails exactly when the text has odd length or holds
\* a character that is no hexadecimal digit; it then returns the empty
\* sequence, and the call always returns to its caller.
C3_DecodeFailsExactly ==
    cpc = "decoded" =>
        /\ binOut.failed <=> ~ValidHex(str)
        /\ ~ValidHex(str) => binOut.value = <<>>
        /\ ~binOut.aborted

\* the same letter in the other case
ToUpper(c) == IF c \in 97..122 THEN c - 32 ELSE c
ToLower(c) == IF c \in 65..90 THEN c + 32 ELSE c

RECURSIVE CaseVariants(_)
CaseVariants(s) ==
    IF s = <<>> THEN {<<>>}
    ELSE {<<c>> \o t : c \in {ToUpper(Head(s)), ToLower(Head(s))},
                        t \in CaseVariants(Tail(s))}

\* C4: for a valid text of even length, every variant of the text in upper,
\* lower or mixed case decodes to the same bytes, and byte i is sixteen
\* times the value of the first digit of pair i plus the value of the second.
C4_DecodeCaseInsensitive ==
    (cpc = "decoded" /\ ValidHex(str)) =>
        /\ ~binOut.failed
        /\ Len(binOut.value) * 2 = Len(str)
        /\ \A i \in 1..Len(binOut.value) :
              binOut.value[i] = 16 * HexVal(str[2 * i - 1]) + HexVal(str[2 * i])
        /\ \A v \in CaseVariants(str) : \A ub \in UBOutcomes :
              string_to_binary(v, ub) = binOut

C4_Witness ==
    /\ cpc = "decoded"
    /\ str = <<65, 97, 102, 57>>
    /\ binOut.value = <<170, 249>>

(***************************************************************************)
(* Properties of the directory calculators                                 *)
(***************************************************************************)
RECURSIVE SumOver(_, _)
SumOver(f, S) ==
    IF S = {} THEN 0
    ELSE LET x == CHOOSE y \in S : TRUE IN f[x] + SumOver(f, S \ {x})

Finished(v) == pc = "done" /\ variant = v /\ root = "dir"

\* the byte sizes of the regular files of the tree
SumRegularFiles ==
    SumOver([n \in Ids |-> IF nodes[n].kind = "file" THEN NodeSize(n) ELSE 0], Ids)

\* no symbolic link of the tree leads to a file or a directory
NoLiveLinks == \A n \in Ids : nodes[n].kind = "symlink" => nodes[n].target = 0

\* what the entries reached from directory d add in the nested variant: a
\* path naming a readable regular file its size, a path naming a directory
\* that can be opened what its entries add, anything else nothing
RECURSIVE NestedAccessibleSum(_)
NestedAccessibleSum(d) ==
    SumOver([e \in Ids |->
               IF StatFails(e) \/ Resolve(e) = 0 THEN 0
               ELSE IF nodes[Resolve(e)].kind = "file" THEN NodeSize(Resolve(e))
               ELSE IF nodes[Resolve(e)].kind = "dir" /\ ~OpenFails(Resolve(e))
               THEN NestedAccessibleSum(Resolve(e))
               ELSE 0],
            Children(d))

\* what entry n adds in the flat variant when it is visited
FlatContribution(n) ==
    IF StatFails(n) \/ Resolve(n) = 0 THEN 0
    ELSE IF nodes[Resolve(n)].kind = "file" THEN NodeSize(Resolve(n))
    ELSE IF dirSize = "reported" THEN NodeSize(Resolve(n))
    ELSE 0

FlatAccessibleSum(S) == SumOver([n \in Ids |-> FlatContribution(n)], S)

\* C5 as stated: without access errors the nested variant returns the sum
\* of the sizes of the regular files of the tree.
C5_Original ==
    (Finished("nested") /\ fault = NoFault) => result = SumRegularFiles

\* C5 amended: without access errors, and when no symbolic link of the tree
\* leads to a file or directory, the nested variant returns the sum of the
\* sizes of the regular files of the tree; directories add nothing.
C5_SumOfRegularFiles ==
    (Finished("nested") /\ fault = NoFault /\ NoLiveLinks) =>
        /\ outcome = "returned"
        /\ result = SumRegularFiles

\* a file of one byte in a subdirectory next to an empty subdirectory
C5_Witness ==
    /\ Finished("nested")
    /\ fault = NoFault
    /\ Len(nodes) = 3
    /\ nodes[1].kind = "dir" /\ nodes[2].kind = "dir"
    /\ nodes[3] = [parent |-> 2, kind |-> "file", target |-> 0]
    /\ result = NodeSize(3)
    /\ errlog = 0

\* the sum the running calls of the nested variant hold, or have returned
NestedTotal ==
    IF pc = "done" THEN result
    ELSE SumOver([i \in 1..Len(frames) |-> frames[i].size], 1..Len(frames))

NestedIteration == variant = "nested" /\ iter' = iter + 1

\* C6 as stated: an iteration of the nested variant on an entry that is
\* itself neither a regular file nor a directory (a symbolic link included)
\* adds nothing and opens no directory.
C6_Original ==
    [][(NestedIteration /\ nodes[last'].kind \notin {"file", "dir"}) =>
          /\ NestedTotal' = NestedTotal
          /\ Len(frames') <= Len(frames)]_vars

\* C6 amended: an iteration of the nested variant on an entry whose path,
\* symbolic links followed, names neither a regular file nor a directory (a
\* device, a dangling link) adds nothing and opens no directory; a link to
\* a readable regular file adds the size of that file, and a link to a
\* directory that has entries and can be opened is descended into.
C6_SkipsByResolvedType ==
    [][NestedIteration =>
          LET e == last'
              r == Resolve(e)
          IN  /\ (r = 0 \/ nodes[r].kind \notin {"file", "dir"}) =>
                    /\ NestedTotal' = NestedTotal
                    /\ Len(frames') <= Len(frames)
              /\ (nodes[e].kind = "symlink" /\ r # 0 /\ ~StatFails(e)) =>
                    IF nodes[r].kind = "file"
                    THEN NestedTotal' = NestedTotal + NodeSize(r)
                    ELSE (Children(r) # {} /\ ~OpenFails(r)) =>
                            /\ Len(frames') = Len(frames) + 1
                            /\ frames'[Len(frames')] = Frame(r)]_vars

\* a device entry was skipped and a link to a file counted
C6_Witness ==
    /\ Finished("nested")
    /\ fault = NoFault
    /\ Len(nodes) = 3
    /\ nodes[1].kind = "other"
    /\ nodes[2] = [parent |-> 0, kind |-> "symlink", target |-> 3]
    /\ nodes[3].kind = "file"
    /\ last = 1
    /\ result = 2 * NodeSize(3)

\* C7 as stated: in a tree of files and directories the flat variant
\* returns the sum of the sizes of all files and of all directories.
C7_Original ==
    (Finished("flat") /\ fault = NoFault
       /\ \A n \in Ids : nodes[n].kind \in {"file", "dir"}) =>
        result = SumOver([n \in Ids |-> NodeSize(n)], Ids)

\* C7 amended: the flat variant asks fs::file_size for every entry of the
\* tree and adds what it gets; a directory adds its own size only where
\* file_size reports a size for a directory, and nothing where file_size
\* raises an error for it.
C7_SumOfFileSizeResults ==
    (Finished("flat") /\ fault = NoFault) =>
        /\ outcome = "returned"
        /\ result = FlatAccessibleSum(Ids)
        /\ iter = Len(nodes)

\* file_size raises an error for directories: the directory adds nothing,
\* the file inside it is counted
C7_Witness ==
    /\ Finished("flat")
    /\ fault = NoFault
    /\ dirSize = "error"
    /\ Len(nodes) = 2
    /\ nodes[1].kind = "dir"
    /\ nodes[2] = [parent |-> 1, kind |-> "file", target |-> 0]
    /\ result = NodeSize(2)
    /\ errlog = 1

\* C8: when the status of one entry cannot be read, either variant returns
\* the sum of what all the other entries add.
C8_EntryErrorSkipped ==
    (pc = "done" /\ fault.type = "stat") =>
        /\ outcome = "returned"
        /\ variant = "flat" => result = FlatAccessibleSum(Ids)
        /\ variant = "nested" => result = NestedAccessibleSum(0)

\* the failing entry came first, a file of the same directory after it
C8_Witness ==
    /\ pc = "done"
    /\ fault.type = "stat"
    /\ fault.node = 1
    /\ iter >= 2
    /\ last # fault.node
    /\ nodes[last].kind = "file"
    /\ nodes[last].parent = nodes[1].parent
    /\ result >= NodeSize(last)

\* C9: when one directory below the root cannot be opened, either variant
\* returns the sum of what all entries outside that directory add.
C9_UnreadableDirectorySkipped ==
    (pc = "done" /\ fault.type \in {"open", "locked"}) =>
        /\ outcome = "returned"
        /\ variant = "flat" =>
              result = FlatAccessibleSum({n \in Ids : ~IsUnder(n, fault.node)})
        /\ variant = "nested" => result = NestedAccessibleSum(0)

\* C10: when the root path names nothing or no directory, either variant
\* returns 0 to its caller after reporting the error.
C10_BadRootReturnsZero ==
    (pc = "done" /\ root # "dir") =>
        /\ outcome = "returned"
        /\ result = 0
        /\ errlog = 1
        /\ iter = 0

C10_Witness ==
    /\ pc = "done"
    /\ root = "missing"
    /\ variant = "flat"
    /\ outcome = "returned"

====
